---- MODULE Spec2Model ----
(***************************************************************************)
(* A model of scripts/release.mjs: the release-packaging script that zips  *)
(* every sub-directory of src/files into dist/<version>/, writes the       *)
(* manifest info.json and, when GH_TOKEN is set, publishes the files to a   *)
(* GitHub release.                                                         *)
(*                                                                         *)
(* The script is one async control flow.  Each action below is the code    *)
(* that runs between two await points (or the handler of one stream event  *)
(* together with the promise continuation it triggers).  What the file     *)
(* system, the archiver streams, git and the GitHub API answer is drawn    *)
(* nondeterministically.                                                   *)
(***************************************************************************)
EXTENDS Integers, Sequences, FiniteSets, TLC

VARIABLES
    packageJson,  \* what package.json holds when the run starts
    srcRoot,      \* what src/files holds when the run starts
    GH_TOKEN,     \* process.env.GH_TOKEN
    pc,           \* where the control flow is waiting
    exitCode,     \* the process exit status, NotExited while it runs
    version,      \* main: const version
    folders,      \* main: const folders (names, in enumeration order)
    files,        \* main: const files (the accumulated artifact records)
    zips,         \* one entry per zipFolder() call of the loop: streams and promise
    disk,         \* path -> contents, for the files that exist under dist/
    outDirs,      \* the output directories that exist
    release,      \* createGitHubRelease: let release
    j,            \* createGitHubRelease: index of the artifact being uploaded
    calls,        \* the external calls this run made, in order, with answers
    releases,     \* the releases of the remote repository
    err,          \* the error the run ended on, if any, and who caught it
    runs          \* number of the current run (also the clock of new Date())

vars == <<packageJson, srcRoot, GH_TOKEN, pc, exitCode, version, folders, files,
          zips, disk, outDirs, release, j, calls, releases, err, runs>>

-----------------------------------------------------------------------------
(* Bounds of the model *)

MaxItems == 2    \* entries of src/files
MaxZipLen == 1   \* bytes an archive writes
MaxRuns == 2     \* runs of the script against the same disk and remote

ItemNames == {"core", "plugin-a"}
Bytes == {1}
Versions == {"1.2.0"}
Undefined == "undefined"
Tokens == {Undefined, "", "ghp_token"}
ErrorStatuses == {401, 500}

-----------------------------------------------------------------------------
(* Constants and pure helpers of the script *)

filesSrc == "src/files"
outputDist == "dist"

NotExited == -1
NoRelease == [id |-> 0, tag_name |-> "", draft |-> FALSE, assets |-> {}]
NoError == [at |-> "none", status |-> 0, caughtBy |-> "none", hint |-> FALSE]

\* path.join(a, b)
pathJoin(a, b) == a \o "/" \o b

\* `${folder.name}.zip`
zipFileName(name) == name \o ".zip"

\* `v${version}`
tagOf(v) == "v" \o v

RECURSIVE SeqsNoDup(_, _)
\* the sequences of at most n distinct elements of S
SeqsNoDup(S, n) ==
    IF n = 0 THEN {<<>>}
    ELSE {<<>>} \cup
         {q \in {<<x>> \o s : x \in S, s \in SeqsNoDup(S, n - 1)} :
            \A a, b \in 1..Len(q) : a # b => q[a] # q[b]}

RECURSIVE SelectNames(_)
\* items.filter(item => item.isDirectory()), as the list of names
SelectNames(items) ==
    IF items = <<>> THEN <<>>
    ELSE (IF Head(items).isDirectory THEN <<Head(items).name>> ELSE <<>>)
         \o SelectNames(Tail(items))

\* getVersion(): the parse of package.json: a version, or a throw.
\* "noversion" is a package.json without a version string: getVersion returns
\* undefined and path.join(outputDist, undefined) throws.
getVersionThrows(pkg) == pkg.kind # "ok"

\* calculateSHA512(filePath): the base64 digest of the file's bytes.  The digest
\* is abstract and collision-free: equal digests mean equal contents.
calculateSHA512(bytes) == [alg |-> "sha512", enc |-> "base64", of |-> bytes]

\* A variant of getFileSize that reports kilobytes instead of bytes.
getFileSize_Kilobytes(bytes) == Len(bytes) \div 1024

\* getFileSize(filePath): stats.size
getFileSize(bytes) == Len(bytes)

\* generateInfoJson(version, files), new Date() read from the run clock
generateInfoJson(v, fs, now) == [version |-> v, files |-> fs, releaseDate |-> now]

\* getGitHubInfo(): what `git remote get-url origin` printed decides the result
GitRemotes == {"exec-failed", "https://gitlab.com/o/r.git",
               "https://github.com/o/r.git", "git@github.com:o/r"}
getGitHubInfoThrows(remoteUrl) ==
    remoteUrl \notin {"https://github.com/o/r.git", "git@github.com:o/r"}

\* A variant of the credential test that takes only the empty string for unset.
TokenMissing_EmptyOnly(token) == token = ""

\* if (!githubToken)
TokenMissing(token) == token = Undefined \/ token = ""

\* A variant of the emptiness test that never holds.
NoFolders_Negative(fs) == Len(fs) < 0

\* if (folders.length === 0)
NoFolders(fs) == Len(fs) = 0

\* A variant of the not-found test that takes every HTTP error for not found.
IsNotFound_AnyStatus(status) == status >= 400

\* if (error.status === 404)
IsNotFound(status) == status = 404

\* A variant of release_id that reads the variable `release` as it was before
\* the answer was assigned to it.
ReleaseIdOf_Stale(rel) == release.id

\* release_id: release.id
ReleaseIdOf(rel) == rel.id

-----------------------------------------------------------------------------
(* The file system *)

exists(d, p) == p \in DOMAIN d
writeFile(d, p, c) == [q \in DOMAIN d \cup {p} |-> IF q = p THEN c ELSE d[q]]
removeFile(d, p) == [q \in DOMAIN d \ {p} |-> d[q]]

Dirents == [name : ItemNames, isDirectory : BOOLEAN]
SrcRoots ==
    {[readable |-> FALSE, entries |-> <<>>]} \cup
    {[readable |-> TRUE, entries |-> e] :
        e \in {s \in SeqsNoDup(Dirents, MaxItems) :
                 \A a, b \in 1..Len(s) : a # b => s[a].name # s[b].name}}
PackageJsons ==
    {[kind |-> k, version |-> ""] : k \in {"unreadable", "malformed", "noversion"}}
    \cup {[kind |-> "ok", version |-> v] : v \in Versions}

-----------------------------------------------------------------------------
(* The remote repository *)

Release(id, tag, draft) == [id |-> id, tag_name |-> tag, draft |-> draft, assets |-> {}]

\* The releases the repository may hold before the first run: none, a published
\* release of this version's tag, or a published release of another tag.
InitialReleases ==
    {<<>>} \cup {<<Release(1, tagOf(v), FALSE)>> : v \in Versions}
           \cup {<<Release(1, "v0.9.0", FALSE)>>}

\* One external call and its answer.  result is the HTTP status of the answer,
\* 0 while the call is in flight.
Call(op, tag, id, name, draft) ==
    [op |-> op, tag |-> tag, release_id |-> id, name |-> name, draft |-> draft,
     result |-> 0]

AnswerLast(c, status) == [c EXCEPT ![Len(c)].result = status]

-----------------------------------------------------------------------------
Init ==
    /\ packageJson \in PackageJsons
    /\ srcRoot \in SrcRoots
    /\ GH_TOKEN \in Tokens
    /\ pc = "main"
    /\ exitCode = NotExited
    /\ version = Undefined
    /\ folders = <<>>
    /\ files = <<>>
    /\ zips = <<>>
    /\ disk = [p \in {} |-> <<>>]
    /\ outDirs = {}
    /\ release = NoRelease
    /\ j = 0
    /\ calls = <<>>
    /\ releases \in InitialReleases
    /\ err = NoError
    /\ runs = 1

envUnchanged == UNCHANGED <<packageJson, srcRoot, GH_TOKEN, runs>>

-----------------------------------------------------------------------------
(* How a run ends *)

ExitWith(code, e) ==
    /\ pc' = "exited"
    /\ exitCode' = code
    /\ err' = e

\* A variant of main's catch that logs and returns, without process.exit(1).
MainCatch_LogOnly(at) ==
    ExitWith(0, [at |-> at, status |-> 0, caughtBy |-> "main", hint |-> FALSE])

\* main, line 236-239: catch (error) { ...; process.exit(1) }
MainCatch(at) ==
    ExitWith(1, [at |-> at, status |-> 0, caughtBy |-> "main", hint |-> FALSE])

\* A variant of the Publisher's catch that rethrows: main's catch then exits 1.
PublishCatch_Rethrow(at, status) ==
    ExitWith(1, [at |-> at, status |-> status, caughtBy |-> "main",
                 hint |-> (status = 401)])

\* createGitHubRelease, line 159-164: the error is logged (with a hint on 401)
\* and swallowed; main then returns and the process ends with status 0.
PublishCatch(at, status) ==
    ExitWith(0, [at |-> at, status |-> status, caughtBy |-> "createGitHubRelease",
                 hint |-> (status = 401)])

\* An 'error' event with no listener is thrown by the emitter; nothing catches
\* it and node ends the process with status 1.
Uncaught(at) ==
    ExitWith(1, [at |-> at, status |-> 0, caughtBy |-> "uncaught", hint |-> FALSE])

-----------------------------------------------------------------------------
(* createGitHubRelease *)

outputDirOf(v) == pathJoin(outputDist, v)
infoPathOf(v) == pathJoin(outputDirOf(v), "info.json")

\* A variant of the upload loop that stops at the first missing file.
NextUpload_StopAtMissing(dir, fs, from, d) ==
    IF from <= Len(fs) /\ exists(d, pathJoin(dir, fs[from].url)) THEN from ELSE 0

\* The for loop of line 124-140 from index `from` on: the index of the first
\* artifact whose file exists, 0 when there is none left.
NextUpload(dir, fs, from, d) ==
    LET there == {n \in from..Len(fs) : exists(d, pathJoin(dir, fs[n].url))}
    IN  IF there = {} THEN 0
        ELSE CHOOSE n \in there : \A m \in there : n <= m

\* Lines 124-157 from artifact `from` on, until the next await or the return.
UploadLoop(c, rel, from, d) ==
    LET n == NextUpload(outputDirOf(version), files, from, d)
    IN  IF n # 0
        THEN /\ calls' = Append(c, Call("uploadReleaseAsset", "", ReleaseIdOf(rel),
                                        files[n].url, FALSE))
             /\ j' = n
             /\ pc' = "uploadReleaseAsset"
             /\ UNCHANGED <<exitCode, err>>
        ELSE IF exists(d, infoPathOf(version))
        THEN /\ calls' = Append(c, Call("uploadReleaseAsset", "", ReleaseIdOf(rel),
                                        "info.json", FALSE))
             /\ j' = Len(files) + 1
             /\ pc' = "uploadInfo"
             /\ UNCHANGED <<exitCode, err>>
        ELSE /\ calls' = c
             /\ j' = Len(files) + 1
             /\ ExitWith(0, NoError)

\* Lines 78-100: from the call to the first await.  v is main's version.
createGitHubRelease(v) ==
    IF TokenMissing(GH_TOKEN)
    THEN /\ ExitWith(0, NoError)
         /\ UNCHANGED <<release, j, calls>>
    ELSE \E remoteUrl \in GitRemotes :
           LET git == Call("git remote get-url origin", "", 0, "", FALSE)
           IN  IF getGitHubInfoThrows(remoteUrl)
               THEN /\ calls' = AnswerLast(Append(calls, git),
                                         IF remoteUrl = "exec-failed" THEN 128 ELSE 200)
                    /\ PublishCatch("getGitHubInfo", 0)
                    /\ UNCHANGED <<release, j>>
               ELSE /\ calls' = AnswerLast(Append(calls, git), 200)
                                  \o <<Call("getReleaseByTag", tagOf(v), 0, "", FALSE)>>
                    /\ pc' = "getReleaseByTag"
                    /\ UNCHANGED <<exitCode, err, release, j>>

-----------------------------------------------------------------------------
(* main *)

NewZip(sourcePath, outputPath) ==
    [sourcePath |-> sourcePath, outputPath |-> outputPath,
     archive |-> "active", output |-> "opening", promise |-> "pending"]

\* Lines 218-234: the manifest is written, then the Publisher is called.  The
\* loop is left, and with it the streams of its zipFolder() calls.
Finish(v, fs, zs, d) ==
    /\ files' = fs
    /\ zips' = <<>>
    /\ \E writeOk \in BOOLEAN :
         IF writeOk
         THEN /\ disk' = writeFile(d, infoPathOf(v), generateInfoJson(v, fs, runs))
              /\ createGitHubRelease(v)
         ELSE /\ disk' = d
              /\ MainCatch("writeFileSync")
              /\ UNCHANGED <<release, j, calls>>

\* The for loop of line 195-216 with fs accumulated: the next folder's
\* zipFolder() call up to its await, or the code after the loop.
ForLoop(v, fold, fs, zs, d) ==
    IF Len(fs) < Len(fold)
    THEN LET name == fold[Len(fs) + 1]
             sourcePath == pathJoin(filesSrc, name)
             outputPath == pathJoin(outputDirOf(v), zipFileName(name))
         IN  /\ files' = fs
             /\ zips' = Append(zs, NewZip(sourcePath, outputPath))
             /\ disk' = d
             /\ pc' = "zipFolder"
             /\ UNCHANGED <<exitCode, err, release, j, calls>>
    ELSE Finish(v, fs, zs, d)

\* Lines 203-216, run when the awaited zipFolder() promise resolves.
AfterZip(zs) ==
    LET name == folders[Len(files) + 1]
        zipName == zipFileName(name)
        outputPath == pathJoin(outputDirOf(version), zipName)
    IN  IF ~exists(disk, outputPath)
        THEN /\ MainCatch("calculateSHA512")
             /\ zips' = zs
             /\ UNCHANGED <<files, disk, release, j, calls>>
        ELSE ForLoop(version, folders,
                     Append(files, [url |-> zipName,
                                    sha512 |-> calculateSHA512(disk[outputPath]),
                                    size |-> getFileSize(disk[outputPath])]),
                     zs, disk)

mainGetVersionThrows ==
    /\ pc = "main"
    /\ getVersionThrows(packageJson)
    /\ MainCatch(IF packageJson.kind = "noversion" THEN "path.join" ELSE "getVersion")
    /\ envUnchanged
    /\ UNCHANGED <<version, folders, files, zips, disk, outDirs, release, j, calls,
                   releases>>

mainMkdirThrows ==
    /\ pc = "main"
    /\ ~getVersionThrows(packageJson)
    /\ outputDirOf(packageJson.version) \notin outDirs
    /\ version' = packageJson.version
    /\ MainCatch("mkdirSync")
    /\ envUnchanged
    /\ UNCHANGED <<folders, files, zips, disk, outDirs, release, j, calls, releases>>

mainReaddirThrows ==
    /\ pc = "main"
    /\ ~getVersionThrows(packageJson)
    /\ ~srcRoot.readable
    /\ version' = packageJson.version
    /\ outDirs' = outDirs \cup {outputDirOf(packageJson.version)}
    /\ MainCatch("readdirSync")
    /\ envUnchanged
    /\ UNCHANGED <<folders, files, zips, disk, release, j, calls, releases>>

\* Lines 184-187: process.exit(1) ends the process at once.
mainNoFolders ==
    /\ pc = "main"
    /\ ~getVersionThrows(packageJson)
    /\ srcRoot.readable
    /\ NoFolders(SelectNames(srcRoot.entries))
    /\ version' = packageJson.version
    /\ outDirs' = outDirs \cup {outputDirOf(packageJson.version)}
    /\ folders' = SelectNames(srcRoot.entries)
    /\ ExitWith(1, NoError)
    /\ envUnchanged
    /\ UNCHANGED <<files, zips, disk, release, j, calls, releases>>

\* Lines 169-201: up to the first await.
mainEnumerate ==
    /\ pc = "main"
    /\ ~getVersionThrows(packageJson)
    /\ srcRoot.readable
    /\ ~NoFolders(SelectNames(srcRoot.entries))
    /\ version' = packageJson.version
    /\ outDirs' = outDirs \cup {outputDirOf(packageJson.version)}
    /\ folders' = SelectNames(srcRoot.entries)
    /\ ForLoop(packageJson.version, SelectNames(srcRoot.entries), <<>>, zips, disk)
    /\ envUnchanged
    /\ UNCHANGED releases

-----------------------------------------------------------------------------
(* zipFolder: the events of the archive stream and of the output stream *)

\* What the listeners zipFolder registers (line 39-46) do on an event.
\* There is a listener for the output's 'close' and for the archive's 'error'.
Listener(ev) ==
    CASE ev = "output.close" -> "resolve"
      [] ev = "archive.error" -> "reject"
      [] OTHER -> "none"

\* Stream k has just changed as zs says, by event ev: the listener runs, and
\* with it the continuation of main when it settles the awaited promise.
StreamEvent(k, ev, zs) ==
    LET act == Listener(ev)
        pending == zs[k].promise = "pending"
    IN  CASE act = "resolve" /\ pending ->
               AfterZip([zs EXCEPT ![k].promise = "resolved"])
          [] act = "reject" /\ pending ->
               /\ zips' = [zs EXCEPT ![k].promise = "rejected"]
               /\ MainCatch("zipFolder")
               /\ UNCHANGED <<files, disk, release, j, calls>>
          [] act = "none" /\ ev = "archive.error" ->
               /\ zips' = zs
               /\ Uncaught(ev)
               /\ UNCHANGED <<files, disk, release, j, calls>>
          [] OTHER ->
               /\ zips' = zs
               /\ UNCHANGED <<pc, exitCode, err, files, disk, release, j, calls>>

\* fs.createWriteStream(outputPath) has opened its file: the file is created,
\* or truncated when it was there.
OutputOpen ==
    /\ pc # "exited"
    /\ \E k \in 1..Len(zips) :
         /\ zips[k].output = "opening"
         /\ zips' = [zips EXCEPT ![k].output = "open"]
         /\ disk' = writeFile(disk, zips[k].outputPath, <<>>)
    /\ envUnchanged
    /\ UNCHANGED <<pc, exitCode, version, folders, files, outDirs, release, j, calls,
                   releases, err>>

\* The archive emits a chunk, which the pipe writes to the output file.
ArchiveData ==
    /\ pc # "exited"
    /\ \E k \in 1..Len(zips), b \in Bytes :
         /\ zips[k].archive = "active"
         /\ zips[k].output = "open"
         /\ exists(disk, zips[k].outputPath)
         /\ Len(disk[zips[k].outputPath]) < MaxZipLen
         /\ disk' = [disk EXCEPT ![zips[k].outputPath] = Append(@, b)]
    /\ envUnchanged
    /\ UNCHANGED <<pc, exitCode, version, folders, files, zips, outDirs, release, j,
                   calls, releases, err>>

\* archive.finalize() is done: the archive ends and the pipe ends the output.
ArchiveEnd ==
    /\ pc # "exited"
    /\ \E k \in 1..Len(zips) :
         /\ zips[k].archive = "active"
         /\ zips[k].output = "open"
         /\ StreamEvent(k, "archive.end", [zips EXCEPT ![k].archive = "ended"])
    /\ envUnchanged
    /\ UNCHANGED <<version, folders, outDirs, releases>>

\* The output stream has flushed and closed its file.
OutputClose ==
    /\ pc # "exited"
    /\ \E k \in 1..Len(zips) :
         /\ zips[k].archive = "ended"
         /\ zips[k].output = "open"
         /\ StreamEvent(k, "output.close", [zips EXCEPT ![k].output = "closed"])
    /\ envUnchanged
    /\ UNCHANGED <<version, folders, outDirs, releases>>

\* The archiver fails (an unreadable entry, a zlib error) while it is piped to
\* a live output; unpiped from a failed output it stalls.
ArchiveError ==
    /\ pc # "exited"
    /\ \E k \in 1..Len(zips) :
         /\ zips[k].archive = "active"
         /\ zips[k].output \in {"opening", "open"}
         /\ StreamEvent(k, "archive.error", [zips EXCEPT ![k].archive = "error"])
    /\ envUnchanged
    /\ UNCHANGED <<version, folders, outDirs, releases>>

\* The output stream fails: its file cannot be opened or written (EACCES,
\* ENOSPC).  zipFolder registers no listener for the output's 'error' (line
\* 34-46); the only one is the listener archive.pipe(output) put there, and what
\* it does is the stream library's.  Either it emits the error again, which
\* with no listener left is thrown, nothing catches it and the process ends
\* with status 1; or it destroys the output once more, which does nothing, the
\* error is lost and the output goes on to emit 'close'.
OutputErrorThrown ==
    /\ pc # "exited"
    /\ \E k \in 1..Len(zips) :
         /\ zips[k].output \in {"opening", "open"}
         /\ zips' = [zips EXCEPT ![k].output = "error"]
    /\ Uncaught("output.error")
    /\ envUnchanged
    /\ UNCHANGED <<version, folders, files, disk, outDirs, release, j, calls, releases>>

OutputErrorSwallowed ==
    /\ pc # "exited"
    /\ \E k \in 1..Len(zips) :
         /\ zips[k].output \in {"opening", "open"}
         /\ zips' = [zips EXCEPT ![k].output = "error"]
    /\ envUnchanged
    /\ UNCHANGED <<pc, exitCode, version, folders, files, disk, outDirs, release, j,
                   calls, releases, err>>

\* The output stream that failed has been destroyed and emits 'close'.
OutputCloseAfterError ==
    /\ pc # "exited"
    /\ \E k \in 1..Len(zips) :
         /\ zips[k].output = "error"
         /\ StreamEvent(k, "output.close", [zips EXCEPT ![k].output = "destroyed"])
    /\ envUnchanged
    /\ UNCHANGED <<version, folders, outDirs, releases>>

-----------------------------------------------------------------------------
(* createGitHubRelease: the answers of the remote *)

\* getReleaseByTag answers with a release of the tag (line 101).
getReleaseByTagFound ==
    /\ pc = "getReleaseByTag"
    /\ \E r \in 1..Len(releases) :
         /\ releases[r].tag_name = calls[Len(calls)].tag
         /\ release' = releases[r]
         /\ UploadLoop(AnswerLast(calls, 200), releases[r], 1, disk)
    /\ envUnchanged
    /\ UNCHANGED <<version, folders, files, zips, disk, outDirs, releases>>

\* Lines 103-119 on an error of status `status`.
getReleaseByTagCatch(status) ==
    IF IsNotFound(status)
    THEN /\ calls' = Append(AnswerLast(calls, status),
                            Call("createRelease", tagOf(version), 0, version, TRUE))
         /\ pc' = "createRelease"
         /\ UNCHANGED <<exitCode, err, release, j>>
    ELSE /\ calls' = AnswerLast(calls, status)
         /\ PublishCatch("getReleaseByTag", status)
         /\ UNCHANGED <<release, j>>

\* getReleaseByTag answers 404: the tag has no published release (the platform
\* does not find a draft by its tag in every case).
getReleaseByTagNotFound ==
    /\ pc = "getReleaseByTag"
    /\ \A r \in 1..Len(releases) :
         releases[r].tag_name = calls[Len(calls)].tag => releases[r].draft
    /\ getReleaseByTagCatch(404)
    /\ envUnchanged
    /\ UNCHANGED <<version, folders, files, zips, disk, outDirs, releases>>

\* getReleaseByTag fails otherwise (bad credentials, an outage).
getReleaseByTagFails ==
    /\ pc = "getReleaseByTag"
    /\ \E status \in ErrorStatuses : getReleaseByTagCatch(status)
    /\ envUnchanged
    /\ UNCHANGED <<version, folders, files, zips, disk, outDirs, releases>>

\* createRelease answers with the new release (line 115).
createReleaseOk ==
    /\ pc = "createRelease"
    /\ LET c == calls[Len(calls)]
           new == Release(Len(releases) + 1, c.tag, c.draft)
       IN  /\ releases' = Append(releases, new)
           /\ release' = new
           /\ UploadLoop(AnswerLast(calls, 201), new, 1, disk)
    /\ envUnchanged
    /\ UNCHANGED <<version, folders, files, zips, disk, outDirs>>

createReleaseFails ==
    /\ pc = "createRelease"
    /\ \E status \in ErrorStatuses :
         /\ calls' = AnswerLast(calls, status)
         /\ PublishCatch("createRelease", status)
    /\ envUnchanged
    /\ UNCHANGED <<version, folders, files, zips, disk, outDirs, release, j, releases>>

\* The remote stores the asset under the release of the call: it has such a
\* release, with no asset of that name yet.
StoreAsset(c) ==
    /\ \E r \in 1..Len(releases) :
         /\ releases[r].id = c.release_id
         /\ c.name \notin releases[r].assets
    /\ releases' = [r \in 1..Len(releases) |->
                      IF releases[r].id = c.release_id
                      THEN [releases[r] EXCEPT !.assets = @ \cup {c.name}]
                      ELSE releases[r]]

\* uploadReleaseAsset of artifact j succeeded: the loop goes on (line 138).
uploadReleaseAssetOk ==
    /\ pc = "uploadReleaseAsset"
    /\ StoreAsset(calls[Len(calls)])
    /\ UploadLoop(AnswerLast(calls, 201), release, j + 1, disk)
    /\ envUnchanged
    /\ UNCHANGED <<version, folders, files, zips, disk, outDirs, release>>

\* A variant in which a failed upload is logged and the loop goes on.
uploadReleaseAssetFails_Continue ==
    /\ pc = "uploadReleaseAsset"
    /\ \E status \in ErrorStatuses \cup {422} :
         UploadLoop(AnswerLast(calls, status), release, j + 1, disk)
    /\ envUnchanged
    /\ UNCHANGED <<version, folders, files, zips, disk, outDirs, release, releases>>

\* uploadReleaseAsset of artifact j failed: the throw leaves the loop.
uploadReleaseAssetFails ==
    /\ pc = "uploadReleaseAsset"
    /\ \E status \in ErrorStatuses \cup {422} :
         /\ calls' = AnswerLast(calls, status)
         /\ PublishCatch("uploadReleaseAsset", status)
    /\ envUnchanged
    /\ UNCHANGED <<version, folders, files, zips, disk, outDirs, release, j, releases>>

\* uploadReleaseAsset of info.json succeeded (line 154-157); main returns.
uploadInfoOk ==
    /\ pc = "uploadInfo"
    /\ StoreAsset(calls[Len(calls)])
    /\ calls' = AnswerLast(calls, 201)
    /\ ExitWith(0, NoError)
    /\ envUnchanged
    /\ UNCHANGED <<version, folders, files, zips, disk, outDirs, release, j>>

uploadInfoFails ==
    /\ pc = "uploadInfo"
    /\ \E status \in ErrorStatuses \cup {422} :
         /\ calls' = AnswerLast(calls, status)
         /\ PublishCatch("uploadReleaseAsset", status)
    /\ envUnchanged
    /\ UNCHANGED <<version, folders, files, zips, disk, outDirs, release, j, releases>>

-----------------------------------------------------------------------------
(* The environment *)

\* While the Publisher waits for the remote, something else removes a file of
\* the output directory.
ExternalRemove ==
    /\ pc \in {"getReleaseByTag", "createRelease", "uploadReleaseAsset"}
    /\ \E p \in DOMAIN disk : disk' = removeFile(disk, p)
    /\ envUnchanged
    /\ UNCHANGED <<pc, exitCode, version, folders, files, zips, outDirs, release, j,
                   calls, releases, err>>

\* The script is run again on the same checkout and in the same environment,
\* with the disk and the remote as the last run left them.
Rerun ==
    /\ pc = "exited"
    /\ runs < MaxRuns
    /\ runs' = runs + 1
    /\ UNCHANGED <<packageJson, srcRoot, GH_TOKEN>>
    /\ pc' = "main"
    /\ exitCode' = NotExited
    /\ version' = Undefined
    /\ folders' = <<>>
    /\ files' = <<>>
    /\ zips' = <<>>
    /\ release' = NoRelease
    /\ j' = 0
    /\ calls' = <<>>
    /\ err' = NoError
    /\ UNCHANGED <<disk, outDirs, releases>>

-----------------------------------------------------------------------------
Next ==
    \/ mainGetVersionThrows
    \/ mainMkdirThrows
    \/ mainReaddirThrows
    \/ mainNoFolders
    \/ mainEnumerate
    \/ OutputOpen
    \/ ArchiveData
    \/ ArchiveEnd
    \/ OutputClose
    \/ ArchiveError
    \/ OutputErrorThrown
    \/ OutputErrorSwallowed
    \/ OutputCloseAfterError
    \/ getReleaseByTagFound
    \/ getReleaseByTagNotFound
    \/ getReleaseByTagFails
    \/ createReleaseOk
    \/ createReleaseFails
    \/ uploadReleaseAssetOk
    \/ uploadReleaseAssetFails
    \/ uploadInfoOk
    \/ uploadInfoFails
    \/ ExternalRemove

\* One run of the script.
Spec == Init /\ [][Next]_vars

NextRerun == Next \/ Rerun

\* Up to MaxRuns runs, each on what the one before left behind.
SpecRerun == Init /\ [][NextRerun]_vars

-----------------------------------------------------------------------------
(* Vocabulary of the properties *)

\* The sub-directories of the source root, in enumeration order.
SubDirs ==
    LET e == srcRoot.entries
        RECURSIVE pick(_)
        pick(i) == IF i > Len(e) THEN <<>>
                   ELSE (IF e[i].isDirectory THEN <<e[i].name>> ELSE <<>>) \o pick(i + 1)
    IN  pick(1)

OutputDir == "dist/" \o packageJson.version
ZipPath(name) == OutputDir \o "/" \o name \o ".zip"
InfoPath == OutputDir \o "/info.json"
Tag == "v" \o packageJson.version

Exited == pc = "exited"
ExitedNonZero == pc = "exited" /\ exitCode \notin {0, NotExited}
Positions(op) == {p \in 1..Len(calls) : calls[p].op = op}
Uploads == Positions("uploadReleaseAsset")
ArtifactUploads == {p \in Uploads : calls[p].name # "info.json"}
InfoUploads == {p \in Uploads : calls[p].name = "info.json"}
LookupFound == \E p \in Positions("getReleaseByTag") : calls[p].result = 200
NumReleases(tag) == Cardinality({r \in 1..Len(releases) : releases[r].tag_name = tag})
ArchiveFailed == \E k \in 1..Len(zips) : zips[k].archive = "error"
LocalError ==
    \/ packageJson.kind # "ok"
    \/ ~srcRoot.readable
    \/ ArchiveFailed
    \/ err.caughtBy = "main"
PublishError == err.at \in {"getGitHubInfo", "getReleaseByTag", "createRelease",
                            "uploadReleaseAsset"}

-----------------------------------------------------------------------------
(* C1 *)

\* C1: with GH_TOKEN unset no external call is ever made (no git remote lookup,
\* no getReleaseByTag, createRelease or uploadReleaseAsset); and a run over a
\* source root with at least one sub-directory in which no error was thrown
\* has ended with status 0, with exactly one zip per sub-directory and
\* info.json in the output directory.
C1_NoTokenLocalOnly ==
    GH_TOKEN = Undefined =>
        /\ calls = <<>>
        /\ release = NoRelease
        /\ (Exited /\ err.at = "none" /\ SubDirs # <<>> ) =>
              /\ exitCode = 0
              /\ DOMAIN disk = {ZipPath(SubDirs[i]) : i \in 1..Len(SubDirs)}
                                 \cup {InfoPath}

C1_Witness ==
    /\ GH_TOKEN = Undefined
    /\ Exited
    /\ exitCode = 0
    /\ Len(SubDirs) = 2
    /\ Len(files) = 2
    /\ \A i \in 1..2 : files[i].size = 1
    /\ exists(disk, InfoPath)

-----------------------------------------------------------------------------
(* C2 *)

\* C2: when the source root has no sub-directory, nothing is ever written to
\* the output directory, no archive is started, the Publisher makes no call,
\* and the run ends with a non-zero status.
C2_NoFoldersFatal ==
    (srcRoot.readable /\ SubDirs = <<>>) =>
        /\ DOMAIN disk = {}
        /\ zips = <<>>
        /\ files = <<>>
        /\ calls = <<>>
        /\ pc \in {"main", "exited"}
        /\ Exited => ExitedNonZero

C2_Witness ==
    /\ srcRoot.readable
    /\ Len(srcRoot.entries) = 2
    /\ SubDirs = <<>>
    /\ packageJson.kind = "ok"
    /\ Exited
    /\ exitCode = 1
    /\ err.at = "none"
    /\ OutputDir \in outDirs

-----------------------------------------------------------------------------
(* C3 *)

\* C3: in a run whose getReleaseByTag found a release, createRelease is never
\* called, the release handle is a release of the remote with tag v<version>,
\* every uploadReleaseAsset call carries the id of that release, and no step of
\* that run changes the number of releases of the tag, in any of the runs.
C3_FoundReleaseReused ==
    /\ [](LookupFound =>
            /\ Positions("createRelease") = {}
            /\ release.tag_name = Tag
            /\ \E r \in 1..Len(releases) :
                 releases[r].id = release.id /\ releases[r].tag_name = Tag
            /\ \A p \in Uploads : calls[p].release_id = release.id)
    /\ [][LookupFound' => NumReleases(Tag)' = NumReleases(Tag)]_vars

C3_Witness ==
    /\ runs = 2
    /\ LookupFound
    /\ NumReleases(Tag) = 1
    /\ Exited
    /\ \E p \in ArtifactUploads : calls[p].result = 201
    /\ \E p \in InfoUploads : calls[p].result = 201

-----------------------------------------------------------------------------
(* C4 *)

\* C4: the step in which the Publisher fails (remote URL resolution, release
\* lookup, release creation, an upload) ends the process with status 0, the
\* error caught by the Publisher, and removes or alters no file of the disk.
C4_PublishFailureIsolated ==
    [][(~PublishError /\ PublishError') =>
          /\ pc' = "exited"
          /\ exitCode' = 0
          /\ err'.caughtBy = "createGitHubRelease"
          /\ err'.hint = (err'.status = 401)
          /\ \A q \in DOMAIN disk : exists(disk', q) /\ disk'[q] = disk[q]]_vars

C4_Witness ==
    /\ err.at = "uploadReleaseAsset"
    /\ err.status = 401
    /\ err.hint
    /\ Exited
    /\ exitCode = 0
    /\ Len(files) = 2
    /\ \A i \in 1..2 : exists(disk, ZipPath(folders[i]))
    /\ exists(disk, InfoPath)

-----------------------------------------------------------------------------
(* C5 *)

\* The manifest on disk lists the enumerated folders' zips in order, each
\* present on disk with the recorded hash and size.
ManifestMatchesDisk ==
    LET m == disk[InfoPath]
    IN  /\ m.version = packageJson.version
        /\ Len(m.files) = Len(SubDirs)
        /\ \A i \in 1..Len(m.files) :
             /\ m.files[i].url = SubDirs[i] \o ".zip"
             /\ exists(disk, ZipPath(SubDirs[i]))
             /\ m.files[i].sha512 = calculateSHA512(disk[ZipPath(SubDirs[i])])
             /\ m.files[i].size = Len(disk[ZipPath(SubDirs[i])])

\* C5: in the state right after the step that writes info.json, its files list
\* has one entry per enumerated sub-directory, in enumeration order, named
\* <folder>.zip, whose zip is on disk with the recorded hash and byte length.
C5_ManifestAtWrite ==
    [][(~exists(disk, InfoPath) /\ exists(disk', InfoPath)) =>
          ManifestMatchesDisk']_vars

C5_Witness ==
    /\ exists(disk, InfoPath)
    /\ Len(disk[InfoPath].files) = 2
    /\ disk[InfoPath].files[1].size = 1
    /\ disk[InfoPath].files[2].size = 0
    /\ ManifestMatchesDisk

-----------------------------------------------------------------------------
(* C6 *)

\* C6: when the version metadata is missing or malformed, the source root is
\* unreadable, an archive has emitted 'error', or main has caught any other
\* error, the run, once started, has ended with a non-zero status; no
\* info.json was written, no archive was started after the one that failed,
\* and the Publisher made no call and got no release.
C6_LocalErrorFatal ==
    LocalError =>
        /\ pc = "main" \/ ExitedNonZero
        /\ ~exists(disk, InfoPath)
        /\ Len(zips) <= Len(files) + 1
        /\ ArchiveFailed => Len(zips) = Len(files) + 1
        /\ calls = <<>>
        /\ release = NoRelease

C6_Witness ==
    /\ err.at = "zipFolder"
    /\ Len(folders) = 2
    /\ Len(files) = 1
    /\ Len(zips) = 2
    /\ zips[2].archive = "error"
    /\ exitCode = 1

-----------------------------------------------------------------------------
(* C7 *)

InProgress(k) == zips[k].promise = "pending" \/ zips[k].output \in {"opening", "open"}
StreamFailed(k) == zips[k].archive = "error" \/ zips[k].output \in {"error", "destroyed"}

-----------------------------------------------------------------------------
(* C8 *)

\* C8: a run calls createRelease at most once, and only right after its
\* getReleaseByTag for tag v<version> was answered 404; the call asks for a
\* draft of tag v<version>, and the release it returns is that draft, stored
\* by the remote.  A getReleaseByTag that failed with another status is the
\* run's last call: the run has ended, creating and uploading nothing.
C8_CreateOnlyAfter404 ==
    /\ Cardinality(Positions("createRelease")) <= 1
    /\ \A p \in Positions("createRelease") :
         /\ p > 1
         /\ calls[p - 1].op = "getReleaseByTag"
         /\ calls[p - 1].tag = Tag
         /\ calls[p - 1].result = 404
         /\ calls[p].tag = Tag
         /\ calls[p].draft
         /\ calls[p].result = 201 =>
              /\ release.draft
              /\ release.tag_name = Tag
              /\ \E r \in 1..Len(releases) : releases[r] = [release EXCEPT !.assets =
                                                             releases[r].assets]
    /\ \A p \in Positions("getReleaseByTag") :
         calls[p].result \notin {0, 200, 404} =>
             /\ p = Len(calls)
             /\ Exited
             /\ err.at = "getReleaseByTag"
             /\ release = NoRelease

C8_Witness ==
    /\ \E p \in Positions("createRelease") : calls[p].result = 201
    /\ release.draft
    /\ release.id = 2
    /\ release.assets = {}
    /\ \E p \in InfoUploads : calls[p].result = 201
    /\ Exited

-----------------------------------------------------------------------------
(* C9 *)

FileOf(n) == OutputDir \o "/" \o files[n].url
Issued == Len(calls') = Len(calls) + 1 /\ calls'[Len(calls')].op = "uploadReleaseAsset"
Returned == pc # "exited" /\ pc' = "exited" /\ err'.at = "none" /\ release' # NoRelease

\* C9: at most one call is in flight, and it is the last one made.  With a
\* release handle obtained, a step that issues the upload of artifact n does so
\* when n's file is on disk and the file of every artifact between the last
\* one handled and n is missing; the upload of info.json is issued when
\* info.json is on disk and no artifact after the last one handled has its
\* file; the Publisher returns without uploading info.json only when neither
\* a remaining artifact nor info.json is on disk.  Uploads so follow the
\* manifest order, a missing file is passed over and the manifest comes last.
C9_UploadsInOrder ==
    /\ [](\A p \in 1..Len(calls) : calls[p].result = 0 => p = Len(calls))
    /\ [][(Issued /\ calls'[Len(calls')].name # "info.json") =>
             /\ j' \in (j + 1)..Len(files)
             /\ calls'[Len(calls')].name = files[j'].url
             /\ exists(disk, FileOf(j'))
             /\ \A m \in (j + 1)..(j' - 1) : ~exists(disk, FileOf(m))]_vars
    /\ [][(Issued /\ calls'[Len(calls')].name = "info.json") =>
             /\ exists(disk, InfoPath)
             /\ \A m \in (j + 1)..Len(files) : ~exists(disk, FileOf(m))]_vars
    /\ [][(Returned /\ pc # "uploadInfo") =>
             /\ ~exists(disk, InfoPath)
             /\ \A m \in (j + 1)..Len(files) : ~exists(disk, FileOf(m))]_vars

C9_Witness ==
    /\ Exited
    /\ err.at = "none"
    /\ Len(files) = 2
    /\ ~exists(disk, FileOf(1))
    /\ \A p \in Uploads : calls[p].name # files[1].url
    /\ \E p \in Uploads : calls[p].name = files[2].url /\ calls[p].result = 201
    /\ \E p \in InfoUploads : calls[p].result = 201

-----------------------------------------------------------------------------
(* C10 *)

\* C10: an upload that failed is the last call of its run, and the run has
\* ended: no later artifact and no info.json is uploaded, and no upload is made
\* twice.  So info.json is uploaded only after every artifact upload made
\* succeeded, and every asset uploaded before the failure stays on the release.
C10_FirstFailureEndsPublishing ==
    /\ \A p \in Uploads :
         calls[p].result \notin {0, 201} => p = Len(calls) /\ Exited
    /\ \A p \in InfoUploads : \A q \in ArtifactUploads : q < p /\ calls[q].result = 201
    /\ \A p, q \in Uploads : calls[p].name = calls[q].name => p = q
    /\ \A p \in Uploads :
         calls[p].result = 201 =>
             \E r \in 1..Len(releases) :
                 releases[r].id = calls[p].release_id /\ calls[p].name \in releases[r].assets

\* A release left with a strict prefix of the artifacts and no manifest.
C10_Witness ==
    /\ Exited
    /\ err.at = "uploadReleaseAsset"
    /\ Len(files) = 2
    /\ exists(disk, FileOf(1)) /\ exists(disk, FileOf(2)) /\ exists(disk, InfoPath)
    /\ \E r \in 1..Len(releases) :
         releases[r].id = release.id /\ releases[r].assets = {files[1].url}
    /\ calls[Len(calls)].name = files[2].url

=============================================================================
